---------------------------- MODULE Spec2Model ----------------------------
(***************************************************************************)
(* Model of the ADS122x04 driver (hacknus/ads122x04-rs):                   *)
(*   src/src/registers.rs  command opcodes, setting enumerations, decoders *)
(*   src/src/interface.rs  I2C and UART transports                         *)
(*   src/src/lib.rs        device handle: mirror, update_reg, setters,     *)
(*                         getters, raw_to_signed, reset, start            *)
(* Bytes are naturals 0..255; u8 shifts drop the bits shifted out.         *)
(***************************************************************************)
EXTENDS Integers, Sequences, FiniteSets, TLC

VARIABLES variant, self, dev, nsets, call, wire, ret

vars == <<variant, self, dev, nsets, call, wire, ret>>

(***************************************************************************)
(* Bounds of the model.                                                    *)
(***************************************************************************)
\* setter calls per run when every operation of the handle is available
MaxSets == 1
\* setter calls per run when only the configuring operations are available
MaxConfigSets == 2
\* distinct errors the underlying bus or stream can report
MaxErr == 1
\* largest register address handed to update_reg / read_reg directly
MaxReg == 4

Errs == 1 .. MaxErr
Byte == 0 .. 255

(***************************************************************************)
(* Integer arithmetic of the code: u8 / u32 shifts and bitwise operators.  *)
(***************************************************************************)
RECURSIVE Pow2(_)
Pow2(n) == IF n = 0 THEN 1 ELSE 2 * Pow2(n - 1)

\* x << n on a u8: bits shifted past bit 7 are dropped
Shl8(x, n) == (x * Pow2(n)) % 256
\* (x as u32) << n for a byte x and n <= 16: no bit leaves the 32 bits
Shl32(x, n) == x * Pow2(n)
\* x >> n
Shr(x, n) == x \div Pow2(n)

RECURSIVE BitOr(_, _)
BitOr(x, y) ==
    IF x = 0 THEN y
    ELSE IF y = 0 THEN x
    ELSE (IF x % 2 = 1 \/ y % 2 = 1 THEN 1 ELSE 0) + 2 * BitOr(x \div 2, y \div 2)

RECURSIVE BitAnd(_, _)
BitAnd(x, y) ==
    IF x = 0 \/ y = 0 THEN 0
    ELSE (IF x % 2 = 1 /\ y % 2 = 1 THEN 1 ELSE 0) + 2 * BitAnd(x \div 2, y \div 2)

\* bool as u8
BoolU8(b) == IF b THEN 1 ELSE 0

(***************************************************************************)
(* registers.rs: commands and setting enumerations (variant |-> code).     *)
(***************************************************************************)
Commands == [Reset |-> 6, StartSync |-> 8, PowerDown |-> 2,
             RData |-> 16, RReg |-> 32, WReg |-> 64]

Mux == [Ain0Ain1 |-> 0, Ain0Ain2 |-> 1, Ain0Ain3 |-> 2, Ain1Ain0 |-> 3,
        Ain1Ain2 |-> 4, Ain1Ain3 |-> 5, Ain2Ain3 |-> 6, Ain3Ain2 |-> 7,
        Ain0Avss |-> 8, Ain1Avss |-> 9, Ain2Avss |-> 10, Ain3Avss |-> 11,
        VrefMonitor |-> 12, AvddMonitor |-> 13, Shorted |-> 14]

DataRate == [Sps20Normal |-> 0, Sps45Normal |-> 2, Sps90Normal |-> 4,
             Sps175Normal |-> 6, Sps330Normal |-> 8, Sps600Normal |-> 10,
             Sps1000Normal |-> 12, Sps40Turbo |-> 1, Sps90Turbo |-> 3,
             Sps180Turbo |-> 5, Sps350Turbo |-> 7, Sps660Turbo |-> 9,
             Sps1200Turbo |-> 11, Sps2000Turbo |-> 13]

DataRateFrom(val) ==
    CASE val = 0 -> "Sps20Normal"
      [] val = 2 -> "Sps45Normal"
      [] val = 4 -> "Sps90Normal"
      [] val = 6 -> "Sps175Normal"
      [] val = 8 -> "Sps330Normal"
      [] val = 10 -> "Sps600Normal"
      [] val = 12 -> "Sps1000Normal"
      [] val = 1 -> "Sps40Turbo"
      [] val = 3 -> "Sps90Turbo"
      [] val = 5 -> "Sps180Turbo"
      [] val = 7 -> "Sps350Turbo"
      [] val = 9 -> "Sps660Turbo"
      [] val = 11 -> "Sps1200Turbo"
      [] val = 13 -> "Sps2000Turbo"
      [] OTHER -> "Sps20Normal"

Gain == [Gain1 |-> 0, Gain2 |-> 1, Gain4 |-> 2, Gain8 |-> 3,
         Gain16 |-> 4, Gain32 |-> 5, Gain64 |-> 6, Gain128 |-> 7]

GainFrom(val) ==
    CASE val = 0 -> "Gain1"
      [] val = 1 -> "Gain2"
      [] val = 2 -> "Gain4"
      [] val = 3 -> "Gain8"
      [] val = 4 -> "Gain16"
      [] val = 5 -> "Gain32"
      [] val = 6 -> "Gain64"
      [] val = 7 -> "Gain128"
      [] OTHER -> "Gain1"

CurrentSource == [Off |-> 0, I10uA |-> 1, I50uA |-> 2, I100uA |-> 3,
                  I250uA |-> 4, I500uA |-> 5, I1000uA |-> 6, I1500uA |-> 7]

CurrentSourceFrom(val) ==
    CASE val = 1 -> "I10uA"
      [] val = 2 -> "I50uA"
      [] val = 3 -> "I100uA"
      [] val = 4 -> "I250uA"
      [] val = 5 -> "I500uA"
      [] val = 6 -> "I1000uA"
      [] val = 7 -> "I1500uA"
      [] OTHER -> "Off"

CurrentRoute == [Off |-> 0, Ain0 |-> 1, Ain1 |-> 2, Ain2 |-> 3,
                 Ain3 |-> 4, RefP |-> 5, RefN |-> 6]

CurrentRouteFrom(val) ==
    CASE val = 1 -> "Ain0"
      [] val = 2 -> "Ain1"
      [] val = 3 -> "Ain2"
      [] val = 4 -> "Ain3"
      [] val = 5 -> "RefP"
      [] val = 6 -> "RefN"
      [] OTHER -> "Off"

ConversionMode == [SingleShot |-> 0, Continuous |-> 1]

ConversionModeFrom(val) == IF val = 0 THEN "SingleShot" ELSE "Continuous"

Crc == [Disabled |-> 0, Inverted |-> 1, Crc16 |-> 2]

CrcFrom(val) ==
    CASE val = 1 -> "Inverted"
      [] val = 2 -> "Crc16"
      [] OTHER -> "Disabled"

\* VRef: Internal, External(f32), AnalogSupply(f32); voltages in millivolts
VRefInternal == [tag |-> "Internal"]
VRefExternal(v) == [tag |-> "External", v |-> v]
VRefAnalogSupply(v) == [tag |-> "AnalogSupply", v |-> v]

VRefToVal(r) ==
    CASE r.tag = "Internal" -> 0
      [] r.tag = "External" -> 1
      [] r.tag = "AnalogSupply" -> 2

VRefToVoltage(r) == IF r.tag = "Internal" THEN 2048 ELSE r.v

VRefFrom(val, voltage) ==
    CASE val = 0 -> VRefInternal
      [] val = 1 -> VRefExternal(voltage)
      [] val = 2 -> VRefAnalogSupply(voltage)
      [] OTHER -> VRefInternal

(***************************************************************************)
(* Transport results, bus events and the device behind the transport.      *)
(***************************************************************************)
\* one call of the underlying bus / stream: bytes sent, bytes received and
\* the error it reported (0: it succeeded)
Ev(op, tx, rx, err) == [op |-> op, tx |-> tx, rx |-> rx, err |-> err]

Ok(val) == [kind |-> "Ok", val |-> val]
Err(kind, e) == [kind |-> kind, val |-> e]

\* what one transport operation did: the calls it made in order, what it
\* returned, and the command bytes that reached the device
Outcome(w, r, sent) == [wire |-> w, ret |-> r, sent |-> sent]

\* register addressed by a WREG / RREG command byte, as the driver places it
DeviceRegOf(cmd) == Shr(BitAnd(cmd, 6), 1)

\* the device's answer to an RREG command byte
DeviceRReg(d, cmd) == d[DeviceRegOf(cmd)]

\* the device's registers after it received the command bytes `sent`
DeviceApply(d, sent) ==
    LET cmd == IF sent # << >> /\ sent[1] = 85 THEN Tail(sent) ELSE sent
    IN  IF cmd = << >> THEN d
        ELSE IF cmd[1] = Commands.Reset THEN [r \in 0 .. 3 |-> 0]
        ELSE IF BitAnd(cmd[1], 240) = Commands.WReg /\ Len(cmd) = 2
             THEN [d EXCEPT ![DeviceRegOf(cmd[1])] = cmd[2]]
        ELSE d

(***************************************************************************)
(* interface.rs: WriteData / ReadData for I2cInterface.                    *)
(***************************************************************************)
I2cWriteRegister(register, data) ==
    LET reg == BitOr(Commands.WReg, Shl8(register, 1))
        tx == <<reg, data>>
    IN  {Outcome(<<Ev("i2c.write", tx, << >>, 0)>>, Ok("unit"), tx)}
        \cup {Outcome(<<Ev("i2c.write", tx, << >>, e)>>, Err("I2CError", e), << >>) :
                e \in Errs}

I2cWriteData(payload) ==
    LET tx == <<payload>>
    IN  {Outcome(<<Ev("i2c.write", tx, << >>, 0)>>, Ok("unit"), tx)}
        \cup {Outcome(<<Ev("i2c.write", tx, << >>, e)>>, Err("I2CError", e), << >>) :
                e \in Errs}

I2cReadRegister(d, register) ==
    LET reg == BitOr(Commands.RReg, Shl8(register, 1))
        tx == <<reg>>
        buffer == <<DeviceRReg(d, reg)>>
    IN  {Outcome(<<Ev("i2c.write_read", tx, buffer, 0)>>, Ok(buffer[1]), << >>)}
        \cup {Outcome(<<Ev("i2c.write_read", tx, << >>, e)>>, Err("I2CError", e), << >>) :
                e \in Errs}

\* mutant: the three bytes assembled LSB first
I2cReadDataLsbFirst(sample) ==
    LET tx == <<Commands.RData>>
        buffer == sample
    IN  {Outcome(<<Ev("i2c.write_read", tx, buffer, 0)>>,
                 Ok(BitOr(BitOr(Shl32(buffer[3], 16), Shl32(buffer[2], 8)), buffer[1])),
                 << >>)}
        \cup {Outcome(<<Ev("i2c.write_read", tx, << >>, e)>>, Err("I2CError", e), << >>) :
                e \in Errs}

I2cReadData(sample) ==
    LET tx == <<Commands.RData>>
        buffer == sample
        msb == buffer[1]
        csb == buffer[2]
        lsb == buffer[3]
    IN  {Outcome(<<Ev("i2c.write_read", tx, buffer, 0)>>,
                 Ok(BitOr(BitOr(Shl32(msb, 16), Shl32(csb, 8)), lsb)), << >>)}
        \cup {Outcome(<<Ev("i2c.write_read", tx, << >>, e)>>, Err("I2CError", e), << >>) :
                e \in Errs}

(***************************************************************************)
(* interface.rs: WriteData / ReadData for SerialInterface.  Each `?`       *)
(* returns at the first failing call.  Bytes accepted by bwrite_all whose  *)
(* flush failed may or may not have left the host.                         *)
(***************************************************************************)
SerialWriteRegister(register, data) ==
    LET reg == BitOr(Commands.WReg, Shl8(register, 1))
        tx == <<85, reg, data>>
        w == Ev("bwrite_all", tx, << >>, 0)
    IN  {Outcome(<<Ev("bwrite_all", tx, << >>, e)>>, Err("SerialWriteError", e), << >>) :
                e \in Errs}
        \cup {Outcome(<<w, Ev("bflush", << >>, << >>, e)>>, Err("SerialWriteError", e), s) :
                e \in Errs, s \in {<< >>, tx}}
        \cup {Outcome(<<w, Ev("bflush", << >>, << >>, 0)>>, Ok("unit"), tx)}

\* mutant: the command byte is written and never flushed
SerialWriteDataNoFlush(payload) ==
    LET tx == <<85, payload>>
    IN  {Outcome(<<Ev("bwrite_all", tx, << >>, e)>>, Err("SerialWriteError", e), << >>) :
                e \in Errs}
        \cup {Outcome(<<Ev("bwrite_all", tx, << >>, 0)>>, Ok("unit"), s) :
                s \in {<< >>, tx}}

SerialWriteData(payload) ==
    LET tx == <<85, payload>>
        w == Ev("bwrite_all", tx, << >>, 0)
    IN  {Outcome(<<Ev("bwrite_all", tx, << >>, e)>>, Err("SerialWriteError", e), << >>) :
                e \in Errs}
        \cup {Outcome(<<w, Ev("bflush", << >>, << >>, e)>>, Err("SerialWriteError", e), s) :
                e \in Errs, s \in {<< >>, tx}}
        \cup {Outcome(<<w, Ev("bflush", << >>, << >>, 0)>>, Ok("unit"), tx)}

\* mutant: the register address is shifted by two bits, as in the other
\* layout of the command byte
SerialReadRegisterShift2(d, register) ==
    LET reg == BitOr(Commands.RReg, Shl8(register, 2))
        tx == <<85, reg>>
        w == Ev("bwrite_all", tx, << >>, 0)
        f == Ev("bflush", << >>, << >>, 0)
        b == d[register]
    IN  {Outcome(<<Ev("bwrite_all", tx, << >>, e)>>, Err("SerialWriteError", e), << >>) :
                e \in Errs}
        \cup {Outcome(<<w, Ev("bflush", << >>, << >>, e)>>, Err("SerialWriteError", e), << >>) :
                e \in Errs}
        \cup {Outcome(<<w, f, Ev("read", << >>, << >>, e)>>, Err("SerialReadError", e), << >>) :
                e \in Errs}
        \cup {Outcome(<<w, f, Ev("read", << >>, <<b>>, 0)>>, Ok(b), << >>)}

SerialReadRegister(d, register) ==
    LET reg == BitOr(Commands.RReg, Shl8(register, 1))
        tx == <<85, reg>>
        w == Ev("bwrite_all", tx, << >>, 0)
        f == Ev("bflush", << >>, << >>, 0)
        b == DeviceRReg(d, reg)
    IN  {Outcome(<<Ev("bwrite_all", tx, << >>, e)>>, Err("SerialWriteError", e), << >>) :
                e \in Errs}
        \cup {Outcome(<<w, Ev("bflush", << >>, << >>, e)>>, Err("SerialWriteError", e), << >>) :
                e \in Errs}
        \cup {Outcome(<<w, f, Ev("read", << >>, << >>, e)>>, Err("SerialReadError", e), << >>) :
                e \in Errs}
        \cup {Outcome(<<w, f, Ev("read", << >>, <<b>>, 0)>>, Ok(b), << >>)}

\* mutant: a failed read of the first byte is tried once more
SerialReadDataRetry(sample) ==
    LET tx == <<85, Commands.RData>>
        w == Ev("bwrite_all", tx, << >>, 0)
        f == Ev("bflush", << >>, << >>, 0)
        msb == sample[1]
        csb == sample[2]
        lsb == sample[3]
        r1 == Ev("read", << >>, <<msb>>, 0)
        r2 == Ev("read", << >>, <<csb>>, 0)
        r3 == Ev("read", << >>, <<lsb>>, 0)
        val == BitOr(BitOr(Shl32(msb, 16), Shl32(csb, 8)), lsb)
    IN  {Outcome(<<Ev("bwrite_all", tx, << >>, e)>>, Err("SerialWriteError", e), << >>) :
                e \in Errs}
        \cup {Outcome(<<w, Ev("bflush", << >>, << >>, e)>>, Err("SerialWriteError", e), << >>) :
                e \in Errs}
        \cup {Outcome(<<w, f, Ev("read", << >>, << >>, e), r1, r2, r3>>, Ok(val), << >>) :
                e \in Errs}
        \cup {Outcome(<<w, f, r1, Ev("read", << >>, << >>, e)>>, Err("SerialReadError", e), << >>) :
                e \in Errs}
        \cup {Outcome(<<w, f, r1, r2, Ev("read", << >>, << >>, e)>>, Err("SerialReadError", e), << >>) :
                e \in Errs}
        \cup {Outcome(<<w, f, r1, r2, r3>>, Ok(val), << >>)}

SerialReadData(sample) ==
    LET tx == <<85, Commands.RData>>
        w == Ev("bwrite_all", tx, << >>, 0)
        f == Ev("bflush", << >>, << >>, 0)
        msb == sample[1]
        csb == sample[2]
        lsb == sample[3]
        r1 == Ev("read", << >>, <<msb>>, 0)
        r2 == Ev("read", << >>, <<csb>>, 0)
        r3 == Ev("read", << >>, <<lsb>>, 0)
    IN  {Outcome(<<Ev("bwrite_all", tx, << >>, e)>>, Err("SerialWriteError", e), << >>) :
                e \in Errs}
        \cup {Outcome(<<w, Ev("bflush", << >>, << >>, e)>>, Err("SerialWriteError", e), << >>) :
                e \in Errs}
        \cup {Outcome(<<w, f, Ev("read", << >>, << >>, e)>>, Err("SerialReadError", e), << >>) :
                e \in Errs}
        \cup {Outcome(<<w, f, r1, Ev("read", << >>, << >>, e)>>, Err("SerialReadError", e), << >>) :
                e \in Errs}
        \cup {Outcome(<<w, f, r1, r2, Ev("read", << >>, << >>, e)>>, Err("SerialReadError", e), << >>) :
                e \in Errs}
        \cup {Outcome(<<w, f, r1, r2, r3>>,
                      Ok(BitOr(BitOr(Shl32(msb, 16), Shl32(csb, 8)), lsb)), << >>)}

\* self.bus.<operation>: the transport chosen at construction
BusWriteRegister(v, register, data) ==
    IF v = "i2c" THEN I2cWriteRegister(register, data)
    ELSE SerialWriteRegister(register, data)

BusWriteData(v, payload) ==
    IF v = "i2c" THEN I2cWriteData(payload) ELSE SerialWriteData(payload)

BusReadRegister(v, d, register) ==
    IF v = "i2c" THEN I2cReadRegister(d, register) ELSE SerialReadRegister(d, register)

BusReadData(v, sample) ==
    IF v = "i2c" THEN I2cReadData(sample) ELSE SerialReadData(sample)

(***************************************************************************)
(* lib.rs: the device handle.                                              *)
(***************************************************************************)
\* new_i2c / new_serial: the mirror at construction
NewMirror ==
    [v_ref |-> VRefInternal,
     gain |-> "Gain1",
     mux |-> "Ain0Ain1",
     current_source |-> "Off",
     current_route_1 |-> "Off",
     current_route_2 |-> "Off",
     data_rate |-> "Sps20Normal",
     pga_bypass |-> FALSE,
     turbo_mode |-> FALSE,
     conversion_mode |-> "SingleShot",
     temperature_sensor_mode |-> FALSE,
     data_counter_enable |-> FALSE,
     crc |-> "Disabled",
     burn_out_current_sources |-> FALSE]

\* the byte update_reg computes for a register 0..3 from the mirror s
RegVal(s, reg) ==
    CASE reg = 0 ->
           BitOr(BitOr(BoolU8(s.pga_bypass), Shl8(Gain[s.gain], 1)), Shl8(Mux[s.mux], 4))
      [] reg = 1 ->
           BitOr(BitOr(BitOr(BitOr(BoolU8(s.temperature_sensor_mode),
                                   Shl8(VRefToVal(s.v_ref), 1)),
                             Shl8(ConversionMode[s.conversion_mode], 3)),
                       Shl8(BoolU8(s.turbo_mode), 4)),
                 Shl8(DataRate[s.data_rate], 5))
      [] reg = 2 ->
           BitOr(BitOr(BitOr(CurrentSource[s.current_source],
                             Shl8(BoolU8(s.burn_out_current_sources), 3)),
                       Shl8(Crc[s.crc], 4)),
                 Shl8(BoolU8(s.data_counter_enable), 6))
      [] reg = 3 ->
           BitOr(Shl8(CurrentRoute[s.current_route_2], 2),
                 Shl8(CurrentRoute[s.current_route_1], 5))

\* mutant: the register address is masked to two bits instead of rejected
UpdateRegMasked(v, s, reg) == BusWriteRegister(v, reg % 4, RegVal(s, reg % 4))

UpdateReg(v, s, reg) ==
    IF reg \in 0 .. 3
    THEN BusWriteRegister(v, reg, RegVal(s, reg))
    ELSE {Outcome(<< >>, Err("InvalidValue", 0), << >>)}

ReadReg(v, d, reg) ==
    IF reg \in 0 .. 3
    THEN BusReadRegister(v, d, reg)
    ELSE {Outcome(<< >>, Err("InvalidValue", 0), << >>)}

\* x as i32 for a u32 x below 2^31 (read_data returns values below 2^24)
AsI32(x) == x

RawToSigned(x) ==
    IF Shr(x, 23) = 1
    THEN -AsI32(BitAnd(x, 8388607))
    ELSE AsI32(x)

\* the decoders the getters apply to the byte read_reg returned
DecPgaBypass(val) == BitAnd(val, 1) = 1
DecGain(val) == GainFrom(BitAnd(Shr(val, 1), 7))
DecInputMux(val) == Shr(val, 4)
DecTemperatureSensorMode(val) == BitAnd(val, 1) = 1
DecVref(s, val) == VRefFrom(BitAnd(Shr(val, 1), 3), VRefToVoltage(s.v_ref))
DecConversionMode(val) == ConversionModeFrom(BitAnd(Shr(val, 3), 1))
DecOperatingMode(val) == BitAnd(Shr(val, 4), 1) = 1
DecDataRate(val) == DataRateFrom(BitAnd(Shr(val, 4), 15))
DecCurrentLevel(val) == CurrentSourceFrom(BitAnd(val, 7))
DecBurnoutCurrentSource(val) == BitAnd(Shr(val, 3), 1) = 1
DecCrc(val) == CrcFrom(BitAnd(Shr(val, 4), 3))
DecDataCounter(val) == BitAnd(Shr(val, 6), 1) = 1
DecDataReady(val) == BitAnd(Shr(val, 7), 1) = 1
DecCurrentRoute1(val) == CurrentRouteFrom(BitAnd(Shr(val, 5), 7))
DecCurrentRoute2(val) == CurrentRouteFrom(BitAnd(Shr(val, 3), 7))

(***************************************************************************)
(* Inputs of the operations.                                               *)
(***************************************************************************)
\* the settings the setters are called with: the power-on default of each
\* field and settings that set its lowest and highest bits
GainArgs == {"Gain1", "Gain128"}
MuxArgs == {"Ain0Ain1", "Shorted"}
DataRateArgs == {"Sps20Normal", "Sps45Normal", "Sps2000Turbo"}
ConversionModeArgs == {"SingleShot", "Continuous"}
CurrentSourceArgs == {"Off", "I500uA"}
CrcArgs == {"Disabled", "Crc16"}
CurrentRouteArgs == {"Off", "Ain0", "RefN"}
Voltages == {3300}
VRefArgs == {VRefInternal} \cup {VRefExternal(v) : v \in Voltages}
                \cup {VRefAnalogSupply(v) : v \in Voltages}
\* register addresses outside 0..3 (the setters and getters pass 0..3)
BadRegs == (4 .. MaxReg) \cup {255}
\* conversion results the device answers RDATA with
\* bytes of a conversion result: both ends of the range and the sign boundary
SampleBytes == {0, 1, 127, 128, 255}
Samples == {<<a, b, c>> : a \in SampleBytes, b \in SampleBytes, c \in SampleBytes}
FewSamples == {<<0, 0, 0>>, <<127, 255, 255>>, <<128, 0, 0>>, <<255, 255, 255>>}

(***************************************************************************)
(* State machine: one action per public operation of the handle.           *)
(***************************************************************************)
Init ==
    /\ variant \in {"i2c", "serial"}
    /\ self = NewMirror
    /\ dev = [r \in 0 .. 3 |-> 0]
    /\ nsets = 0
    /\ call = [op |-> "new", arg |-> "none"]
    /\ wire = << >>
    /\ ret = Ok("unit")

\* mutant: update_reg runs before the field is stored
SetterWritesFirst(name, arg, s2, reg) ==
    /\ \E o \in UpdateReg(variant, self, reg) :
          /\ self' = s2
          /\ dev' = DeviceApply(dev, o.sent)
          /\ wire' = o.wire
          /\ ret' = o.ret
    /\ nsets' = nsets + 1
    /\ call' = [op |-> name, arg |-> arg]
    /\ UNCHANGED variant

\* a setter: store the field, then update_reg(reg)
Setter(name, arg, s2, reg) ==
    /\ \E o \in UpdateReg(variant, s2, reg) :
          /\ self' = s2
          /\ dev' = DeviceApply(dev, o.sent)
          /\ wire' = o.wire
          /\ ret' = o.ret
    /\ nsets' = nsets + 1
    /\ call' = [op |-> name, arg |-> arg]
    /\ UNCHANGED variant

\* the closure each getter maps over the byte read_reg returned
Decode(name, s, val) ==
    CASE name = "get_pga_bypass" -> DecPgaBypass(val)
      [] name = "get_gain" -> DecGain(val)
      [] name = "get_input_mux" -> DecInputMux(val)
      [] name = "get_temperature_sensor_mode" -> DecTemperatureSensorMode(val)
      [] name = "get_vref" -> DecVref(s, val)
      [] name = "get_conversion_mode" -> DecConversionMode(val)
      [] name = "get_operating_mode" -> DecOperatingMode(val)
      [] name = "get_data_rate" -> DecDataRate(val)
      [] name = "get_current_level" -> DecCurrentLevel(val)
      [] name = "get_burnout_current_source" -> DecBurnoutCurrentSource(val)
      [] name = "get_crc" -> DecCrc(val)
      [] name = "get_data_counter" -> DecDataCounter(val)
      [] name = "get_data_ready" -> DecDataReady(val)
      [] name = "get_current_route_1" -> DecCurrentRoute1(val)
      [] name = "get_current_route_2" -> DecCurrentRoute2(val)

\* a getter: read_reg(reg), then map the decoder over an Ok byte
Getter(name, reg) ==
    /\ \E o \in ReadReg(variant, dev, reg) :
          /\ wire' = o.wire
          /\ ret' = IF o.ret.kind = "Ok" THEN Ok(Decode(name, self, o.ret.val)) ELSE o.ret
    /\ call' = [op |-> name, arg |-> reg]
    /\ UNCHANGED <<variant, self, dev, nsets>>

set_pga_bypass ==
    \E state \in BOOLEAN :
        Setter("set_pga_bypass", state, [self EXCEPT !.pga_bypass = state], 0)
set_gain ==
    \E gain \in GainArgs :
        Setter("set_gain", gain, [self EXCEPT !.gain = gain], 0)
set_input_mux ==
    \E mux \in MuxArgs :
        Setter("set_input_mux", mux, [self EXCEPT !.mux = mux], 0)
set_temperature_sensor_mode ==
    \E state \in BOOLEAN :
        Setter("set_temperature_sensor_mode", state,
               [self EXCEPT !.temperature_sensor_mode = state], 1)
set_vref ==
    \E v_ref \in VRefArgs :
        Setter("set_vref", v_ref, [self EXCEPT !.v_ref = v_ref], 1)
set_conversion_mode ==
    \E mode \in ConversionModeArgs :
        Setter("set_conversion_mode", mode, [self EXCEPT !.conversion_mode = mode], 1)
set_data_rate ==
    \E rate \in DataRateArgs :
        Setter("set_data_rate", rate,
               [self EXCEPT !.data_rate = rate,
                            !.turbo_mode = (BitAnd(DataRate[rate], 1) = 1)], 1)
set_current_level ==
    \E current \in CurrentSourceArgs :
        Setter("set_current_level", current, [self EXCEPT !.current_source = current], 2)
set_burnout_current_source ==
    \E state \in BOOLEAN :
        Setter("set_burnout_current_source", state,
               [self EXCEPT !.burn_out_current_sources = state], 2)
set_crc ==
    \E crc \in CrcArgs :
        Setter("set_crc", crc, [self EXCEPT !.crc = crc], 2)
set_data_counter ==
    \E state \in BOOLEAN :
        Setter("set_data_counter", state, [self EXCEPT !.data_counter_enable = state], 2)
set_current_route_1 ==
    \E route \in CurrentRouteArgs :
        Setter("set_current_route_1", route, [self EXCEPT !.current_route_1 = route], 3)
set_current_route_2 ==
    \E route \in CurrentRouteArgs :
        Setter("set_current_route_2", route, [self EXCEPT !.current_route_2 = route], 3)

get_pga_bypass == Getter("get_pga_bypass", 0)
get_gain == Getter("get_gain", 0)
get_input_mux == Getter("get_input_mux", 0)
get_temperature_sensor_mode == Getter("get_temperature_sensor_mode", 1)
get_vref == Getter("get_vref", 1)
get_conversion_mode == Getter("get_conversion_mode", 1)
get_operating_mode == Getter("get_operating_mode", 1)
get_data_rate == Getter("get_data_rate", 1)
get_current_level == Getter("get_current_level", 2)
get_burnout_current_source == Getter("get_burnout_current_source", 2)
get_crc == Getter("get_crc", 2)
get_data_counter == Getter("get_data_counter", 2)
get_data_ready == Getter("get_data_ready", 2)
get_current_route_1 == Getter("get_current_route_1", 3)
get_current_route_2 == Getter("get_current_route_2", 3)

\* get_raw_adc: read_data, then raw_to_signed over an Ok value
GetRawAdc(samples) ==
    /\ \E sample \in samples :
          \E o \in BusReadData(variant, sample) :
             /\ wire' = o.wire
             /\ ret' = IF o.ret.kind = "Ok" THEN Ok(RawToSigned(o.ret.val)) ELSE o.ret
    /\ call' = [op |-> "get_raw_adc", arg |-> "none"]
    /\ UNCHANGED <<variant, self, dev, nsets>>

get_raw_adc == GetRawAdc(FewSamples)

\* self.bus.read_data(): the raw value get_raw_adc hands to raw_to_signed
ReadData(samples) ==
    /\ \E sample \in samples :
          \E o \in BusReadData(variant, sample) :
             /\ wire' = o.wire
             /\ ret' = o.ret
    /\ call' = [op |-> "read_data", arg |-> "none"]
    /\ UNCHANGED <<variant, self, dev, nsets>>

\* reset / start: one command byte through write_data
Command(name, payload) ==
    /\ \E o \in BusWriteData(variant, payload) :
          /\ dev' = DeviceApply(dev, o.sent)
          /\ wire' = o.wire
          /\ ret' = o.ret
    /\ call' = [op |-> name, arg |-> payload]
    /\ UNCHANGED <<variant, self, nsets>>

reset == Command("reset", Commands.Reset)
start == Command("start", Commands.StartSync)

\* update_reg / read_reg handed a register address outside 0..3
update_reg ==
    \E reg \in BadRegs :
        /\ \E o \in UpdateReg(variant, self, reg) :
              /\ dev' = DeviceApply(dev, o.sent)
              /\ wire' = o.wire
              /\ ret' = o.ret
        /\ call' = [op |-> "update_reg", arg |-> reg]
        /\ UNCHANGED <<variant, self, nsets>>

read_reg ==
    \E reg \in BadRegs :
        /\ \E o \in ReadReg(variant, dev, reg) :
              /\ wire' = o.wire
              /\ ret' = o.ret
        /\ call' = [op |-> "read_reg", arg |-> reg]
        /\ UNCHANGED <<variant, self, dev, nsets>>

Setters ==
    \/ set_pga_bypass \/ set_gain \/ set_input_mux
    \/ set_temperature_sensor_mode \/ set_vref \/ set_conversion_mode
    \/ set_data_rate
    \/ set_current_level \/ set_burnout_current_source \/ set_crc \/ set_data_counter
    \/ set_current_route_1 \/ set_current_route_2

Getters ==
    \/ get_pga_bypass \/ get_gain \/ get_input_mux
    \/ get_temperature_sensor_mode \/ get_vref \/ get_conversion_mode
    \/ get_operating_mode \/ get_data_rate
    \/ get_current_level \/ get_burnout_current_source \/ get_crc
    \/ get_data_counter \/ get_data_ready
    \/ get_current_route_1 \/ get_current_route_2

\* every operation of the handle
Next ==
    \/ (nsets < MaxSets /\ Setters)
    \/ Getters
    \/ get_raw_adc
    \/ reset
    \/ start
    \/ update_reg
    \/ read_reg

Spec == Init /\ [][Next]_vars

\* the operations that configure the device: setters, reset and start
NextConfig ==
    \/ (nsets < MaxConfigSets /\ Setters)
    \/ reset
    \/ start

SpecConfig == Init /\ [][NextConfig]_vars

\* reading conversion results, over every combination of the sample bytes
read_data == ReadData(Samples)
get_raw_adc_samples == GetRawAdc(Samples)

NextData ==
    \/ read_data
    \/ get_raw_adc_samples

SpecData == Init /\ [][NextData]_vars

\* a handle constructed over a device one of whose registers holds any byte
InitDecode ==
    /\ variant \in {"i2c", "serial"}
    /\ self = NewMirror
    /\ dev \in {[r \in 0 .. 3 |-> IF r = k THEN b ELSE 0] : k \in 0 .. 3, b \in Byte}
    /\ nsets = 0
    /\ call = [op |-> "new", arg |-> "none"]
    /\ wire = << >>
    /\ ret = Ok("unit")

NextDecode == Getters

SpecDecode == InitDecode /\ [][NextDecode]_vars

\* the configuring operations, every call of which succeeds
NextOk ==
    \/ (nsets < MaxConfigSets /\ Setters /\ ret'.kind = "Ok")
    \/ (reset /\ ret'.kind = "Ok")
    \/ (start /\ ret'.kind = "Ok")

SpecOk == Init /\ [][NextOk]_vars

(***************************************************************************)
(* Vocabulary of the properties: the last operation, the bytes it put on   *)
(* the transport and the bytes it received.                                *)
(***************************************************************************)
\* the register each setter / getter addresses
SetterReg ==
    [set_pga_bypass |-> 0, set_gain |-> 0, set_input_mux |-> 0,
     set_temperature_sensor_mode |-> 1, set_vref |-> 1, set_conversion_mode |-> 1,
     set_data_rate |-> 1,
     set_current_level |-> 2, set_burnout_current_source |-> 2, set_crc |-> 2,
     set_data_counter |-> 2,
     set_current_route_1 |-> 3, set_current_route_2 |-> 3]

IsSetter == call.op \in DOMAIN SetterReg

\* transport calls of the last operation that send bytes / receive bytes
Writes == {i \in 1 .. Len(wire) : wire[i].op \in {"i2c.write", "i2c.write_read", "bwrite_all"}}
Reads == {i \in 1 .. Len(wire) : wire[i].op \in {"i2c.write_read", "read"}}

\* the command bytes of the first transport call, without the UART sync byte
Frame ==
    IF wire = << >> THEN << >>
    ELSE IF variant = "serial" THEN Tail(wire[1].tx)
    ELSE wire[1].tx

\* all bytes the last operation received, in order
RECURSIVE RxFrom(_)
RxFrom(i) == IF i > Len(wire) THEN << >> ELSE wire[i].rx \o RxFrom(i + 1)
Rx == RxFrom(1)

\* the last operation made no failing transport call
AllOk == \A i \in 1 .. Len(wire) : wire[i].err = 0

CommKinds == {"I2CError", "SerialWriteError", "SerialReadError"}

(***************************************************************************)
(* C1: for each configuration register, decoding the byte update_reg wrote *)
(* with the getters' decoders returns exactly the mirror fields that were  *)
(* encoded into it.                                                        *)
(***************************************************************************)
C1_RoundTrip ==
    (IsSetter /\ wire # << >>) =>
        LET reg == SetterReg[call.op]
            val == Frame[2]
        IN  /\ reg = 0 =>
                /\ DecPgaBypass(val) = self.pga_bypass
                /\ DecGain(val) = self.gain
                /\ DecInputMux(val) = Mux[self.mux]
            /\ reg = 1 =>
                /\ DecTemperatureSensorMode(val) = self.temperature_sensor_mode
                /\ DecVref(self, val) = self.v_ref
                /\ DecConversionMode(val) = self.conversion_mode
                /\ DecOperatingMode(val) = self.turbo_mode
                /\ DecDataRate(val) = self.data_rate
            /\ reg = 2 =>
                /\ DecCurrentLevel(val) = self.current_source
                /\ DecBurnoutCurrentSource(val) = self.burn_out_current_sources
                /\ DecCrc(val) = self.crc
                /\ DecDataCounter(val) = self.data_counter_enable
            /\ reg = 3 =>
                /\ DecCurrentRoute1(val) = self.current_route_1
                /\ DecCurrentRoute2(val) = self.current_route_2

(***************************************************************************)
(* C2: get_raw_adc returns the 24-bit sample sign-extended from bit 23:    *)
(* x when bit 23 is clear, x - 2^24 when it is set.                        *)
(***************************************************************************)
C2_SignExtension ==
    (call.op = "get_raw_adc" /\ ret.kind = "Ok") =>
        LET x == Rx[1] * 65536 + Rx[2] * 256 + Rx[3]
        IN  ret.val = IF x < 8388608 THEN x ELSE x - 16777216

(***************************************************************************)
(* C3: update_reg and read_reg with a register address outside 0..3 return *)
(* InvalidValue, make no transport call and leave the device registers as  *)
(* they were.                                                              *)
(***************************************************************************)
C3_InvalidRegister ==
    [][(call'.op \in {"update_reg", "read_reg"} /\ call'.arg \notin 0 .. 3) =>
          /\ ret'.kind = "InvalidValue"
          /\ wire' = << >>
          /\ dev' = dev
          /\ self' = self]_vars

C3_Witness ==
    /\ call.op = "update_reg"
    /\ call.arg = 4
    /\ ret.kind = "InvalidValue"
    /\ dev[0] = 14

(***************************************************************************)
(* C4: every setter call makes exactly one register write: one transport   *)
(* write, addressed to the register holding the changed field, whose value *)
(* byte is the whole register as encoded from the current mirror.          *)
(***************************************************************************)
C4_OneWholeWrite ==
    IsSetter =>
        /\ Cardinality(Writes) = 1
        /\ Reads = {}
        /\ Len(Frame) = 2
        /\ Frame[1] = Commands.WReg + 2 * SetterReg[call.op]
        /\ Frame[2] = RegVal(self, SetterReg[call.op])

C4_Witness ==
    /\ call.op = "set_gain"
    /\ self.gain = "Gain128"
    /\ self.pga_bypass
    /\ Frame = <<64, 15>>
    /\ ret.kind = "Ok"

(***************************************************************************)
(* C5: the mirror's turbo_mode flag always equals the low bit of its       *)
(* data_rate code, and the register 0x01 byte a setter writes carries the  *)
(* turbo flag in bit 4 together with the data-rate code.                   *)
(***************************************************************************)
C5_TurboWithRate ==
    /\ self.turbo_mode = (DataRate[self.data_rate] % 2 = 1)
    /\ (IsSetter /\ SetterReg[call.op] = 1) =>
          /\ (Frame[2] \div 16) % 2 = BoolU8(self.turbo_mode)
          /\ Frame[2] \div 32 = DataRate[self.data_rate]

(***************************************************************************)
(* C6: for every logical transport operation the UART variant sends the    *)
(* bytes the I2C variant sends, with the framing byte 0x55 in front, and   *)
(* then flushes.                                                           *)
(***************************************************************************)
GetterNames ==
    {"get_pga_bypass", "get_gain", "get_input_mux", "get_temperature_sensor_mode",
     "get_vref", "get_conversion_mode", "get_operating_mode", "get_data_rate",
     "get_current_level", "get_burnout_current_source", "get_crc", "get_data_counter",
     "get_data_ready", "get_current_route_1", "get_current_route_2"}

\* the bytes every outcome of a transport operation sends first
TxOf(outs) == CHOOSE t \in {o.wire[1].tx : o \in outs} : TRUE

\* the outcomes of the last operation's transport operation under each variant
I2cOutcomes ==
    CASE IsSetter ->
           I2cWriteRegister(SetterReg[call.op], RegVal(self, SetterReg[call.op]))
      [] call.op \in GetterNames -> I2cReadRegister(dev, call.arg)
      [] call.op \in {"reset", "start"} -> I2cWriteData(call.arg)
      [] call.op \in {"get_raw_adc", "read_data"} -> I2cReadData(<<0, 0, 0>>)

SerialOutcomes ==
    CASE IsSetter ->
           SerialWriteRegister(SetterReg[call.op], RegVal(self, SetterReg[call.op]))
      [] call.op \in GetterNames -> SerialReadRegister(dev, call.arg)
      [] call.op \in {"reset", "start"} -> SerialWriteData(call.arg)
      [] call.op \in {"get_raw_adc", "read_data"} -> SerialReadData(<<0, 0, 0>>)

C6_SameBytesFramed ==
    wire # << >> =>
        /\ variant = "serial" =>
              /\ wire[1].tx = <<85>> \o TxOf(I2cOutcomes)
              /\ wire[1].err = 0 => (Len(wire) >= 2 /\ wire[2].op = "bflush")
        /\ variant = "i2c" =>
              /\ <<85>> \o wire[1].tx = TxOf(SerialOutcomes)
              /\ \A o \in SerialOutcomes :
                    o.wire[1].err = 0 => (Len(o.wire) >= 2 /\ o.wire[2].op = "bflush")

C6_Witness ==
    /\ variant = "serial"
    /\ call.op = "get_current_route_1"
    /\ wire[1].tx = <<85, 38>>
    /\ Len(wire) = 3
    /\ ret.kind = "Ok"

(***************************************************************************)
(* C7: the decoders of gain, input multiplexer, data rate, CRC mode,       *)
(* excitation current level and current route return, for the field value  *)
(* the getter extracts, the variant with that code when the code is        *)
(* defined and the default variant when it is not.                         *)
(***************************************************************************)
Variant(E, code, default) ==
    IF \E v \in DOMAIN E : E[v] = code
    THEN CHOOSE v \in DOMAIN E : E[v] = code
    ELSE default

C7_PermissiveDecode ==
    (ret.kind = "Ok" /\ call.op \in GetterNames) =>
        LET val == Rx[1]
        IN  /\ call.op = "get_gain" =>
                ret.val = Variant(Gain, (val \div 2) % 8, "Gain1")
            /\ call.op = "get_input_mux" =>
                ret.val = Mux[Variant(Mux, val \div 16, "Ain0Ain1")]
            /\ call.op = "get_data_rate" =>
                ret.val = Variant(DataRate, val \div 16, "Sps20Normal")
            /\ call.op = "get_crc" =>
                ret.val = Variant(Crc, (val \div 16) % 4, "Disabled")
            /\ call.op = "get_current_level" =>
                ret.val = Variant(CurrentSource, val % 8, "Off")
            /\ call.op = "get_current_route_1" =>
                ret.val = Variant(CurrentRoute, val \div 32, "Off")
            /\ call.op = "get_current_route_2" =>
                ret.val = Variant(CurrentRoute, (val \div 8) % 8, "Off")

C9_ReadDataMsbFirst ==
    call.op = "read_data" =>
        /\ Cardinality(Writes) = 1
        /\ Frame = <<16>>
        /\ ret.kind = "Ok" =>
              /\ Len(Rx) = 3
              /\ ret.val = Rx[1] * 65536 + Rx[2] * 256 + Rx[3]
              /\ ret.val < 16777216

C9_Witness ==
    /\ variant = "serial"
    /\ call.op = "read_data"
    /\ Rx = <<128, 1, 255>>
    /\ ret = Ok(8389119)

(***************************************************************************)
(* C10: in the UART variant every operation writes its framed bytes, then  *)
(* flushes, then reads; no byte is read before the flush after the write   *)
(* succeeded, and every successful write is followed by a flush.           *)
(***************************************************************************)
C10_WriteFlushRead ==
    (variant = "serial" /\ wire # << >>) =>
        /\ wire[1].op = "bwrite_all"
        /\ wire[1].err = 0 => (Len(wire) >= 2 /\ wire[2].op = "bflush")
        /\ \A i \in 2 .. Len(wire) : wire[i].op # "bwrite_all"
        /\ \A i \in 3 .. Len(wire) :
              /\ wire[i].op = "read"
              /\ wire[1].err = 0
              /\ wire[2].op = "bflush"
              /\ wire[2].err = 0

C10_Witness ==
    /\ variant = "serial"
    /\ call.op = "get_gain"
    /\ Len(wire) = 3
    /\ wire[2] = Ev("bflush", << >>, << >>, 0)
    /\ wire[3] = Ev("read", << >>, <<14>>, 0)

(***************************************************************************)
(* C11: after any sequence of successful setter, start and reset calls on  *)
(* a fresh handle over a device in its reset state, every device           *)
(* configuration register equals the byte update_reg encodes from the      *)
(* current mirror.                                                         *)
(***************************************************************************)
C11_MirrorMatchesDevice == \A r \in 0 .. 3 : dev[r] = RegVal(self, r)

(***************************************************************************)
(* C12: a setter whose register write fails with a communication error     *)
(* leaves the mirror as it was before the call.                            *)
(***************************************************************************)
C12_MirrorUnchangedOnError ==
    [][(call'.op \in DOMAIN SetterReg /\ ret'.kind \in CommKinds) => self' = self]_vars

=============================================================================
